---- MODULE Spec2Model ----
(***************************************************************************)
(* Translet (src/app.py): a Streamlit script that translates uploaded      *)
(* documents through a translation provider, with a session cache.         *)
(*                                                                         *)
(* Text values are sequences of one-character strings, so that str(),      *)
(* strip(), len() and the f-string cache key are computed, not assumed.    *)
(* One script run of the "processing" screen is followed step by step:     *)
(* one action per file opened, per translate_block call and per file       *)
(* stored; the buttons are enabled only between script runs.               *)
(*                                                                         *)
(* Left abstract: the bytes written by doc.save / to_csv / to_excel / the  *)
(* PDF canvas (a file's data is its translated text), the timestamp of a   *)
(* history entry, the sleep of line 79 and the browser-storage write of    *)
(* sync_cache_to_browser, which swallows its own faults.  call and         *)
(* succeeded observe the translate_block calls; no action reads them.      *)
(***************************************************************************)
EXTENDS Integers, Sequences, FiniteSets, TLC

\* ------------------------------------------------------------- bounds
\* Script runs of the processing screen that are followed in one session.
MaxRuns == 2

\* ------------------------------------------------------------- text values
\* A missing spreadsheet cell: pandas hands float('nan') to the lambda.
NaN == <<"NaN">>

Whitespace == {" "}

\* str(text)
Str(text) ==
    IF text = NaN THEN <<"n", "a", "n">> ELSE text

\* Python truthiness of a cell value: "" is falsy, nan and other text truthy.
Truthy(text) ==
    text # <<>>

RECURSIVE LStrip(_)
LStrip(s) ==
    IF s # <<>> /\ Head(s) \in Whitespace THEN LStrip(Tail(s)) ELSE s

RECURSIVE RStrip(_)
RStrip(s) ==
    IF s # <<>> /\ s[Len(s)] \in Whitespace
    THEN RStrip(SubSeq(s, 1, Len(s) - 1))
    ELSE s

\* str.strip()
Strip(s) ==
    RStrip(LStrip(s))

\* ------------------------------------------------------------- languages
\* The entries of LANG_MAP that the model's language selectors offer.
Labels == {"Auto Detect", "Chinese (Simplified)"}

LANG_MAP ==
    [l \in Labels |->
        CASE l = "Auto Detect" -> <<"a", "u", "t", "o">>
          [] l = "English" -> <<"e", "n">>
          [] l = "Chinese (Simplified)" -> <<"z", "h", "-", "C", "N">>]

\* options of the "Source Language" selectbox
SrcLabels == Labels

\* options of the "Target Language" selectbox
TargetLabels == {k \in Labels : k # "Auto Detect"}

\* ------------------------------------------------------------- provider
\* What GoogleTranslator(...).translate may answer when it does not raise:
\* the text itself (nothing to translate) or a translation.
T_xy == <<"x", "y">>

ProviderResults(clean_text) ==
    {clean_text, T_xy}

\* How many consecutive invocations for one item may raise before one succeeds.
FaultCounts == {0, 2}

\* The provider's behaviour towards one item: it raises on its first `faults`
\* invocations and then answers `res`; with ever = FALSE it raises every time.
ProviderBehaviours(clean_text) ==
    {[ever |-> TRUE, faults |-> k, res |-> r] :
        k \in FaultCounts, r \in ProviderResults(clean_text)}
    \cup {[ever |-> FALSE, faults |-> 0, res |-> <<>>]}

\* Does invocation number n (1, 2, ...) for the item raise?
Raises(prov, n) ==
    ~prov.ever \/ n <= prov.faults

\* ------------------------------------------------------------- translate_block
\* the early return without its length test
SkipFalsyOnly(text) ==
    ~Truthy(text)

\* line 71: the early return
Skip(text) ==
    ~Truthy(text) \/ Len(Strip(Str(text))) < 2

\* line 73: f"{src}-{target}:{clean_text}"
CacheKey(src, target, clean_text) ==
    src \o <<"-">> \o target \o <<":">> \o clean_text

\* lines 75-76: the cache hit
OnHit(key, cache) ==
    [ret |-> cache[key], cache |-> cache, invoked |-> FALSE, attempts |-> 0,
     backoffs |-> 0, raised |-> FALSE]

\* the provider answered, the answer is returned but not put in the cache
OnSuccessNoStore(res, key, cache) ==
    [ret |-> res, cache |-> cache, invoked |-> TRUE,
     attempts |-> 1, backoffs |-> 0, raised |-> FALSE]

\* lines 80-83: the provider answered
OnSuccess(res, key, cache) ==
    [ret |-> res, cache |-> (key :> res) @@ cache, invoked |-> TRUE,
     attempts |-> 1, backoffs |-> 0, raised |-> FALSE]

\* the provider raised and nothing catches it
OnFaultReraise(text, key, cache, prov) ==
    [ret |-> text, cache |-> cache, invoked |-> TRUE, attempts |-> 1,
     backoffs |-> 0, raised |-> TRUE]

\* the provider raised and the pass-through text is cached as the translation
OnFaultCachesOriginal(text, key, cache, prov) ==
    [ret |-> text, cache |-> (key :> text) @@ cache, invoked |-> TRUE,
     attempts |-> 1, backoffs |-> 0, raised |-> FALSE]

\* the provider raised and is invoked again, up to three times, with a delay
\* before each further invocation
OnFaultRetry(text, key, cache, prov) ==
    IF prov.ever /\ prov.faults < 3
    THEN [ret |-> prov.res, cache |-> (key :> prov.res) @@ cache,
          invoked |-> TRUE, attempts |-> prov.faults + 1,
          backoffs |-> prov.faults, raised |-> FALSE]
    ELSE [ret |-> text, cache |-> cache, invoked |-> TRUE, attempts |-> 3,
          backoffs |-> 3, raised |-> FALSE]

\* lines 84-85: the provider raised on the one invocation
OnFault(text, key, cache, prov) ==
    [ret |-> text, cache |-> cache, invoked |-> TRUE, attempts |-> 1,
     backoffs |-> 0, raised |-> FALSE]

\* translate_block(text, src, target) on session cache `cache`, the provider
\* behaving as `prov`
translate_block(text, src, target, cache, prov) ==
    IF Skip(text)
    THEN [ret |-> text, cache |-> cache, invoked |-> FALSE, attempts |-> 0,
          backoffs |-> 0, raised |-> FALSE]
    ELSE LET clean_text == Strip(Str(text))
             cache_key == CacheKey(src, target, clean_text)
         IN  IF cache_key \in DOMAIN cache
             THEN OnHit(cache_key, cache)
             ELSE IF Raises(prov, 1)
                  THEN OnFault(text, cache_key, cache, prov)
                  ELSE OnSuccess(prov.res, cache_key, cache)

\* ------------------------------------------------------------- uploaded files
S_ab == <<"a", "b">>

\* An uploaded file: its name, the suffix file.name.endswith() sees, whether
\* its reader raises, and its text: the object columns of a sheet, the
\* paragraphs and the table-cell paragraphs of a document, the pages of a PDF.
F_csv ==
    [name |-> "a.csv", ext |-> ".csv", corrupt |-> FALSE,
     blocks |-> << <<S_ab, <<>>, S_ab>> >>]

F_xlsx ==
    [name |-> "b.xlsx", ext |-> ".xlsx", corrupt |-> FALSE,
     blocks |-> << << <<"1", "2">>, NaN >>, << <<" ", "a", "b">> >> >>]

F_docx ==
    [name |-> "c.docx", ext |-> ".docx", corrupt |-> FALSE,
     blocks |-> << << S_ab, <<" ">> >>, << <<"a">> >> >>]

F_pdf ==
    [name |-> "d.pdf", ext |-> ".pdf", corrupt |-> FALSE,
     blocks |-> << << <<>>, <<"a", "b", " ">> >> >>]

\* a .docx that python-docx cannot open
F_bad ==
    [name |-> "e.docx", ext |-> ".docx", corrupt |-> TRUE, blocks |-> <<>>]

\* the uploader accepts the type case-insensitively; no endswith() matches it
F_upper ==
    [name |-> "F.CSV", ext |-> ".CSV", corrupt |-> FALSE,
     blocks |-> << <<S_ab>> >>]

\* What the file_uploader widget may hold when the upload screen is drawn.
Uploads ==
    { <<>>, <<F_xlsx>>, <<F_docx, F_pdf>>, <<F_bad, F_csv>>,
      <<F_csv, F_upper>>, <<F_upper>> }

\* the Process Batch button drawn whatever the uploader holds
FilesGivenAlways(batch) ==
    TRUE

\* line 142: if files
FilesGiven(batch) ==
    batch # <<>>

MimeOf(ext) ==
    CASE ext = ".docx" -> "docx-mime"
      [] ext = ".pdf" -> "application/pdf"
      [] ext = ".csv" -> "text/csv"
      [] OTHER -> "xlsx-mime"

\* the branches of lines 158, 170, 182
Matched(ext) ==
    ext \in {".docx", ".pdf", ".csv", ".xlsx"}

\* ------------------------------------------------------------- state
VARIABLES
    step, history, local_cache, files, src_code, target_code, target_name,
    final_results,
    pc, idx, results, data, work, b, r, out,
    runs, call, succeeded

session == <<step, history, local_cache, files, src_code, target_code,
             target_name, final_results>>
locals == <<pc, idx, results, data, work, b, r, out>>
vars == <<session, locals, runs, call, succeeded>>

EmptyDict == [k \in {} |-> k]

\* `data` and `mime` before any branch of the loop assigned them
Unbound == [bound |-> FALSE, data |-> <<>>, mime |-> ""]

\* no translate_block call was made by the step
NoCall ==
    [made |-> FALSE, text |-> <<>>, src |-> <<>>, target |-> <<>>,
     prov |-> [ever |-> FALSE, faults |-> 0, res |-> <<>>],
     ret |-> <<>>, invoked |-> FALSE, attempts |-> 0, backoffs |-> 0,
     raised |-> FALSE, hit |-> FALSE]

\* What local_storage.getItem("translet_cache") hands back to the session: the
\* cache an earlier session stored, here with one translation from "auto".
StoredCaches ==
    { CacheKey(LANG_MAP["Auto Detect"], LANG_MAP["Chinese (Simplified)"], S_ab)
          :> <<"z">> }

Init ==
    /\ step = "welcome"
    /\ history = <<>>
    /\ local_cache \in StoredCaches
    /\ files = <<>>
    /\ src_code = <<>>
    /\ target_code = <<>>
    /\ target_name = ""
    /\ final_results = EmptyDict
    /\ pc = "idle"
    /\ idx = 1
    /\ results = EmptyDict
    /\ data = Unbound
    /\ work = <<>>
    /\ b = 1
    /\ r = 1
    /\ out = <<>>
    /\ runs = 0
    /\ call = NoCall
    /\ succeeded = {}

\* ------------------------------------------------------------- script runs
\* Buttons are handled between script runs: after a run ended, normally or
\* with an uncaught exception.
Between ==
    pc \in {"idle", "crashed"}

LocalsReset(newpc) ==
    /\ pc' = newpc
    /\ idx' = 1
    /\ results' = EmptyDict
    /\ data' = Unbound
    /\ work' = <<>>
    /\ b' = 1
    /\ r' = 1
    /\ out' = <<>>

\* st.rerun(): the script runs again from the top in a fresh namespace; on the
\* processing screen that is lines 152-156, on every other screen it only draws.
Rerun(newstep) ==
    IF newstep = "processing"
    THEN /\ runs < MaxRuns
         /\ runs' = runs + 1
         /\ LocalsReset("open")
    ELSE /\ runs' = runs
         /\ LocalsReset("idle")

\* the uncaught exception ends the script run; session_state keeps its values
Crash ==
    LocalsReset("crashed")

\* first block at or after position n that has an item, else Len(blocks) + 1
RECURSIVE NextBlock(_, _)
NextBlock(blocks, n) ==
    IF n > Len(blocks) \/ blocks[n] # <<>> THEN n ELSE NextBlock(blocks, n + 1)

\* ------------------------------------------------------------- buttons
\* lines 92-93
Home ==
    /\ Between
    /\ step' = "welcome"
    /\ Rerun("welcome")
    /\ call' = NoCall
    /\ UNCHANGED <<history, local_cache, files, src_code, target_code,
                   target_name, final_results, succeeded>>

\* lines 94-95
NewTranslation ==
    /\ Between
    /\ step' = "upload"
    /\ Rerun("upload")
    /\ call' = NoCall
    /\ UNCHANGED <<history, local_cache, files, src_code, target_code,
                   target_name, final_results, succeeded>>

\* Clear History emptying the translation cache as well
ClearHistoryAndCache ==
    /\ Between
    /\ history # <<>>
    /\ history' = <<>>
    /\ local_cache' = EmptyDict
    /\ Rerun(step)
    /\ call' = NoCall
    /\ UNCHANGED <<step, files, src_code, target_code,
                   target_name, final_results, succeeded>>

\* lines 116-117
ClearHistory ==
    /\ Between
    /\ history # <<>>
    /\ history' = <<>>
    /\ Rerun(step)
    /\ call' = NoCall
    /\ UNCHANGED <<step, local_cache, files, src_code, target_code,
                   target_name, final_results, succeeded>>

\* lines 129-130
StartNow ==
    /\ Between
    /\ step = "welcome"
    /\ step' = "upload"
    /\ Rerun("upload")
    /\ call' = NoCall
    /\ UNCHANGED <<history, local_cache, files, src_code, target_code,
                   target_name, final_results, succeeded>>

\* lines 137-148
ProcessBatch ==
    /\ Between
    /\ step = "upload"
    /\ \E batch \in Uploads, src_label \in SrcLabels, target_label \in TargetLabels :
          /\ FilesGiven(batch)
          /\ files' = batch
          /\ src_code' = LANG_MAP[src_label]
          /\ target_code' = LANG_MAP[target_label]
          /\ target_name' = target_label
    /\ step' = "processing"
    /\ Rerun("processing")
    /\ call' = NoCall
    /\ UNCHANGED <<history, local_cache, final_results, succeeded>>

\* lines 215-216
UploadNew ==
    /\ Between
    /\ step = "results"
    /\ step' = "upload"
    /\ Rerun("upload")
    /\ call' = NoCall
    /\ UNCHANGED <<history, local_cache, files, src_code, target_code,
                   target_name, final_results, succeeded>>

\* Any other widget event (a download button, the uploader, a selectbox) runs
\* the script again; with step still "processing" after an exception, the
\* loop of line 156 starts over.
Redraw ==
    /\ pc = "crashed"
    /\ step = "processing"
    /\ Rerun("processing")
    /\ call' = NoCall
    /\ UNCHANGED <<session, succeeded>>

\* ------------------------------------------------------------- processing
\* The call translate_block(text, src_code, target_code) of lines 161, 166,
\* 175 and 186, against the session's cache.
Translated(text, prov) ==
    translate_block(text, src_code, target_code, local_cache, prov)

CallOf(text, prov, res) ==
    [made |-> TRUE, text |-> text, src |-> src_code, target |-> target_code,
     prov |-> IF res.invoked THEN prov ELSE NoCall.prov,
     ret |-> res.ret, invoked |-> res.invoked, attempts |-> res.attempts,
     backoffs |-> res.backoffs, raised |-> res.raised,
     hit |-> /\ ~Skip(text)
             /\ CacheKey(src_code, target_code, Strip(Str(text)))
                    \in DOMAIN local_cache]

\* the (pair, text) whose translation the provider has delivered so far
Delivered(text, prov, res) ==
    IF res.invoked /\ ~Raises(prov, 1)
    THEN succeeded \cup {[src |-> src_code, target |-> target_code,
                          text |-> Strip(Str(text))]}
    ELSE succeeded

\* the results collected once per distinct value
AppliedUnique(sofar, ret) ==
    IF \E i \in 1..Len(sofar) : sofar[i] = ret THEN sofar ELSE Append(sofar, ret)

\* Series.apply / the page loop: the results in the order of the items
Applied(sofar, ret) ==
    Append(sofar, ret)

\* move past item (b, r) of `work`, whose block becomes `block`
Advance(block) ==
    IF r < Len(work[b])
    THEN /\ r' = r + 1
         /\ UNCHANGED <<pc, b>>
         /\ IF files[idx].ext = ".docx"
            THEN work' = [work EXCEPT ![b] = block] /\ out' = out
            ELSE work' = work /\ out' = block
    ELSE /\ work' = [work EXCEPT ![b] = block]
         /\ out' = <<>>
         /\ b' = NextBlock(work, b + 1)
         /\ r' = 1
         /\ pc' = IF NextBlock(work, b + 1) > Len(work) THEN "store" ELSE "items"

\* lines 156-159, 170-171, 182-184: the next file is opened
FileOpen ==
    /\ pc = "open"
    /\ idx <= Len(files)
    /\ LET file == files[idx]
       IN  IF Matched(file.ext)
           THEN IF file.corrupt
                THEN Crash
                ELSE /\ work' = file.blocks
                     /\ b' = NextBlock(file.blocks, 1)
                     /\ r' = 1
                     /\ out' = <<>>
                     /\ pc' = IF NextBlock(file.blocks, 1) > Len(file.blocks)
                              THEN "store" ELSE "items"
                     /\ UNCHANGED <<idx, results, data>>
           ELSE /\ pc' = "store"
                /\ UNCHANGED <<idx, results, data, work, b, r, out>>
    /\ call' = NoCall
    /\ UNCHANGED <<session, runs, succeeded>>

\* lines 160-166: one paragraph of the document or of a table cell
TranslateParagraph ==
    /\ pc = "items"
    /\ files[idx].ext = ".docx"
    /\ LET text == work[b][r]
       IN  IF Strip(text) = <<>>
           THEN /\ Advance(work[b])
                /\ call' = NoCall
                /\ UNCHANGED <<local_cache, succeeded, idx, results, data>>
           ELSE \E prov \in ProviderBehaviours(Strip(Str(text))) :
                   LET res == Translated(text, prov)
                   IN  /\ call' = CallOf(text, prov, res)
                       /\ local_cache' = res.cache
                       /\ succeeded' = Delivered(text, prov, res)
                       /\ IF res.raised
                          THEN Crash
                          ELSE /\ Advance([work[b] EXCEPT ![r] = res.ret])
                               /\ UNCHANGED <<idx, results, data>>
    /\ UNCHANGED <<step, history, files, src_code, target_code, target_name,
                   final_results, runs>>

\* lines 173-178: one page of the PDF
TranslatePage ==
    /\ pc = "items"
    /\ files[idx].ext = ".pdf"
    /\ LET text == work[b][r]
       IN  \E prov \in ProviderBehaviours(Strip(Str(text))) :
              LET res == Translated(text, prov)
              IN  /\ call' = CallOf(text, prov, res)
                  /\ local_cache' = res.cache
                  /\ succeeded' = Delivered(text, prov, res)
                  /\ IF res.raised
                     THEN Crash
                     ELSE /\ Advance(Applied(out, res.ret))
                          /\ UNCHANGED <<idx, results, data>>
    /\ UNCHANGED <<step, history, files, src_code, target_code, target_name,
                   final_results, runs>>

\* lines 185-186: the lambda on one cell of an object column
ApplyLambda ==
    /\ pc = "items"
    /\ files[idx].ext \in {".csv", ".xlsx"}
    /\ LET text == work[b][r]
       IN  \E prov \in ProviderBehaviours(Strip(Str(text))) :
              LET res == Translated(text, prov)
              IN  /\ call' = CallOf(text, prov, res)
                  /\ local_cache' = res.cache
                  /\ succeeded' = Delivered(text, prov, res)
                  /\ IF res.raised
                     THEN Crash
                     ELSE /\ Advance(Applied(out, res.ret))
                          /\ UNCHANGED <<idx, results, data>>
    /\ UNCHANGED <<step, history, files, src_code, target_code, target_name,
                   final_results, runs>>

\* lines 167-168, 179-180, 187-192: the branch's data and mime, if a branch ran
Saved(file, blocks, before) ==
    IF Matched(file.ext)
    THEN [bound |-> TRUE, data |-> blocks, mime |-> MimeOf(file.ext)]
    ELSE before

\* lines 194-197: the file's result is stored
FileStore ==
    /\ pc = "store"
    /\ LET file == files[idx]
           now == Saved(file, work, data)
       IN  IF ~now.bound
           THEN /\ Crash
                /\ UNCHANGED history
           ELSE /\ data' = now
                /\ results' = (file.name :> [data |-> now.data, mime |-> now.mime])
                                  @@ results
                /\ history' = Append(history,
                       [name |-> file.name, data |-> now.data, mime |-> now.mime,
                        target_name |-> target_name])
                /\ idx' = idx + 1
                /\ pc' = "open"
                /\ work' = <<>>
                /\ b' = 1
                /\ r' = 1
                /\ out' = <<>>
    /\ call' = NoCall
    /\ UNCHANGED <<step, local_cache, files, src_code, target_code, target_name,
                   final_results, runs, succeeded>>

\* lines 199-200: the loop is over
Finish ==
    /\ pc = "open"
    /\ idx > Len(files)
    /\ final_results' = results
    /\ step' = "results"
    /\ Rerun("results")
    /\ call' = NoCall
    /\ UNCHANGED <<history, local_cache, files, src_code, target_code,
                   target_name, succeeded>>

Next ==
    \/ Home
    \/ NewTranslation
    \/ ClearHistory
    \/ StartNow
    \/ ProcessBatch
    \/ UploadNew
    \/ Redraw
    \/ FileOpen
    \/ TranslateParagraph
    \/ TranslatePage
    \/ ApplyLambda
    \/ FileStore
    \/ Finish

Spec == Init /\ [][Next]_vars

\* ------------------------------------------------------------- properties
Sheet(file) ==
    file.ext \in {".csv", ".xlsx"}

\* the cache key of the item a call was made for
KeyOf(c) ==
    CacheKey(c.src, c.target, Strip(Str(c.text)))

PairTextOf(c) ==
    [src |-> c.src, target |-> c.target, text |-> Strip(Str(c.text))]

\* y is what translate_block may hand back for x: x itself, or the cached
\* translation of x's trimmed text for the current language pair
OutputFor(x, y) ==
    \/ y = x
    \/ /\ Len(Strip(Str(x))) >= 2
       /\ CacheKey(src_code, target_code, Strip(Str(x))) \in DOMAIN local_cache
       /\ y = local_cache[CacheKey(src_code, target_code, Strip(Str(x)))]

\* C1: every object column of a sheet comes out of the apply of line 186 with
\* the length it went in with, and position i holds the output for input i:
\* while a column is being mapped the results so far are those of the first
\* r - 1 cells in order, and when the sheet is stored every column has its
\* input's length and each cell holds the output for the cell it replaced.
C1_ColumnKeepsLengthAndOrder ==
    /\ (pc = "items" /\ Sheet(files[idx])) =>
          /\ Len(out) = r - 1
          /\ \A i \in 1..Len(out) : OutputFor(files[idx].blocks[b][i], out[i])
    /\ (pc = "store" /\ Sheet(files[idx])) =>
          /\ Len(work) = Len(files[idx].blocks)
          /\ \A c \in 1..Len(work) :
                /\ Len(work[c]) = Len(files[idx].blocks[c])
                /\ \A i \in 1..Len(work[c]) :
                      OutputFor(files[idx].blocks[c][i], work[c][i])

\* a sheet is about to be stored with at least one cell translated
C1_Witness ==
    /\ pc = "store"
    /\ Sheet(files[idx])
    /\ work # files[idx].blocks

Letters == {"a", "b", "n", "x", "y", "z"}

\* empty, whitespace only, or without an alphabetic character
NonTranslatable(text) ==
    \A i \in 1..Len(Strip(Str(text))) : Strip(Str(text))[i] \notin Letters

\* empty, or fewer than two characters once trimmed
ShortOrEmpty(text) ==
    text = <<>> \/ Len(Strip(Str(text))) < 2

C3_Idempotent ==
    [][(call'.made /\ PairTextOf(call') \in succeeded) =>
          /\ ~call'.invoked
          /\ KeyOf(call') \in DOMAIN local_cache
          /\ call'.ret = local_cache[KeyOf(call')]]_vars

\* in a second run, with the history cleared in between, the first item of a
\* file is answered from the cache with a translation delivered in this session
C3_Witness ==
    /\ runs = 2
    /\ history = <<>>
    /\ pc = "items"
    /\ b = 1
    /\ r = 2
    /\ call.made
    /\ call.hit
    /\ PairTextOf(call) \in succeeded

\* C4: when the provider raises on every invocation for an item, the call does
\* not raise, the script run is not ended by it, and the call returns the
\* item's original text.
C4_FaultDegradesToOriginal ==
    (call.made /\ call.invoked /\ ~call.prov.ever) =>
        (~call.raised /\ pc # "crashed" /\ call.ret = call.text)

\* the provider was invoked for an item and raises every time
C4_Witness ==
    /\ call.made
    /\ call.invoked
    /\ ~call.prov.ever
    /\ call.text = NaN

C6_DuplicatesAgree ==
    (pc = "store" /\ Sheet(files[idx])) =>
        \A c \in 1..Len(work) :
            \A i, j \in 1..Len(work[c]) :
                (files[idx].blocks[c][i] = files[idx].blocks[c][j]) =>
                    (work[c][i] = work[c][j])

Faulty(file) ==
    file.corrupt \/ ~Matched(file.ext)

\* C7: when the script run over a batch with a faulty file has ended, the
\* screen is the results screen and every other file of the batch has its own
\* entry in final_results.
C7_BatchSurvivesFileFault ==
    ( /\ \/ pc = "crashed"
         \/ (pc = "idle" /\ step = "results")
      /\ \E i \in 1..Len(files) : Faulty(files[i]) ) =>
        /\ step = "results"
        /\ \A i \in 1..Len(files) :
              ~Faulty(files[i]) => files[i].name \in DOMAIN final_results

\* C8: no step removes a key of the translation cache or changes its value.
C8_CacheEntriesStay ==
    [][\A k \in DOMAIN local_cache :
          k \in DOMAIN local_cache' /\ local_cache'[k] = local_cache[k]]_vars

\* the history was cleared after a finished run and the cache still holds the
\* stored entry and one added in this session
C8_Witness ==
    /\ step = "results"
    /\ history = <<>>
    /\ succeeded # {}
    /\ Cardinality(DOMAIN local_cache) >= 2

\* C9: a call whose provider invocation raises leaves the cache as it was, and
\* a call for a text of two or more characters whose key is not in the cache
\* invokes the provider.
C9_CacheWrittenOnSuccessOnly ==
    [][call'.made =>
          /\ (call'.invoked /\ Raises(call'.prov, 1)) =>
                local_cache' = local_cache
          /\ (~ShortOrEmpty(call'.text) /\ KeyOf(call') \notin DOMAIN local_cache) =>
                call'.invoked]_vars

\* the first "ab" of a.csv came back untranslated and the provider is invoked
\* again for the second one
C9_Witness ==
    /\ pc = "store"
    /\ files[idx].name = "a.csv"
    /\ work[1][1] = S_ab
    /\ call.made
    /\ call.invoked
    /\ call.text = S_ab
    /\ call.ret = T_xy

Screens == {"welcome", "upload", "processing", "results"}

\* C10: step is always one of the four screens; it becomes "processing" only
\* by Process Batch on the upload screen with at least one file; it becomes
\* "results" only at the end of a loop that went over every file and stored
\* final_results; Home, New Translation and Clear History leave step alone or
\* set it to welcome or upload.
C10_ScreenStateMachine ==
    [][/\ step' \in Screens
       /\ (step' = "processing" /\ step # "processing") =>
             (ProcessBatch /\ step = "upload" /\ Len(files') >= 1)
       /\ (step' = "results" /\ step # "results") =>
             /\ step = "processing"
             /\ pc = "open"
             /\ idx = Len(files) + 1
             /\ final_results' = results
             /\ \A i \in 1..Len(files) : files[i].name \in DOMAIN final_results'
       /\ (Home \/ NewTranslation \/ ClearHistory) =>
             (step' = step \/ step' \in {"welcome", "upload"})]_vars

\* a batch went through the loop and the results screen is shown
C10_Witness ==
    /\ step = "results"
    /\ runs >= 1
    /\ DOMAIN final_results # {}

====
